---- MODULE Spec2Model ----
(***************************************************************************)
(* Check-It: the checklist data engine of src/src/App.jsx (second variant, *)
(* lines 710-1593; the first variant and src/unnamed/part_000 carry the    *)
(* same engine code).                                                      *)
(*                                                                         *)
(* JavaScript values are modelled as tagged records [t, v, n]: t is the    *)
(* typeof-like tag, v the text of a string or boolean, n the value of a    *)
(* number (and the serial of a generated id).  A property that is absent   *)
(* from an object reads as undefined, so "absent" and undefined are the    *)
(* same leaf.                                                              *)
(***************************************************************************)
EXTENDS Integers, Sequences, FiniteSets, TLC

VARIABLES
    phase,      \* "running", or "crashed" when the state initializer threw
    title,      \* useState title: a string
    sections,   \* useState sections: sequence of [id, name, items]
    confirm,    \* useState confirm: [open, sectionId]
    dragRef,    \* useRef dragRef.current: [sectionId, fromIndex]
    slot,       \* localStorage[LS_KEY]: a text, see the text model below
    nextId,     \* number of identifiers uid() has handed out
    pending,    \* imports whose file.text() has not resolved yet
    search,     \* useState search: the text of the search box
    filter,     \* useState filter: "all", "today" or "overdue"
    today,      \* what todayISO() returns now
    shown,      \* the todayISO() with which what is on screen was computed:
                \* the cached totals, the cached projection, the rows' flags
    lastOp      \* history: the handler that ran last, its input, its outcome
                \* and the message it passed to notify ("" for none)

vars == <<phase, title, sections, confirm, dragRef, slot, nextId, pending, search, filter,
          today, shown, lastOp>>

-----------------------------------------------------------------------------
(* Bounds of the model.                                                    *)

\* sections addSection may build up, items addItem may build up in a section
MaxSections == 2
MaxItems == 2
\* ids the Store's add operations and the seed may use up
MaxUid == 3
\* ids an import may generate beyond MaxUid
ImportUids == 2
\* imports that may be in flight at once
MaxPending == 1
\* imports that may be in flight at once where imports overlap
MaxOverlap == 2

-----------------------------------------------------------------------------
(* JavaScript leaf values.                                                 *)

JV(t, v, n) == [t |-> t, v |-> v, n |-> n]
Undefined == JV("undefined", "", 0)
Null == JV("null", "", 0)
Bool(b) == JV("boolean", IF b THEN "true" ELSE "false", 0)
Num(n) == JV("number", "", n)
Str(s) == JV("string", s, 0)
Obj == JV("object", "", 0)
Arr == JV("array", "", 0)

\* uid(): an opaque string, the n-th one generated
uid(n) == JV("string", "uid", n)

\* ToBoolean
Truthy(x) ==
    CASE x.t = "undefined" -> FALSE
      [] x.t = "null" -> FALSE
      [] x.t = "boolean" -> x.v = "true"
      [] x.t = "number" -> x.n # 0
      [] x.t = "string" -> ~(x.v = "" /\ x.n = 0)
      [] OTHER -> TRUE

\* String(x)
String(x) ==
    CASE x.t = "string" -> x.v
      [] x.t = "boolean" -> x.v
      [] x.t = "number" -> (IF x.n = 0 THEN "0" ELSE "5")
      [] x.t = "null" -> "null"
      [] x.t = "undefined" -> "undefined"
      [] x.t = "array" -> ""
      [] OTHER -> "[object Object]"

\* a ?? b
Nullish(a, b) == IF a.t \in {"undefined", "null"} THEN b ELSE a

\* a || b
OrElse(a, b) == IF Truthy(a) THEN a ELSE b

-----------------------------------------------------------------------------
(* Texts (the slot's content, a file's content) and the values they parse  *)
(* to.  k = "none": no text (the slot is absent); k = "bad": text that is  *)
(* not JSON; k = "leaf": JSON for the non-object value top (an array at    *)
(* the top level has no `sections` either and is a leaf here); k = "doc":  *)
(* JSON for an object with the properties title and sections, where secs   *)
(* is the leaf standing for the value of `sections` and, when that is an   *)
(* array, list holds its entries.                                          *)
(* A section entry is [e, id, name, items, list]: e is the entry itself    *)
(* when it is no object (its properties then read undefined), Obj          *)
(* otherwise; items stands for the value of `items` and list for its       *)
(* entries when it is an array.  An item entry is [e, id, text, done,      *)
(* dueDate].                                                               *)

NoText == [k |-> "none", top |-> Undefined, title |-> Undefined, secs |-> Undefined, list |-> <<>>]
BadText == [k |-> "bad", top |-> Undefined, title |-> Undefined, secs |-> Undefined, list |-> <<>>]
LeafText(x) == [k |-> "leaf", top |-> x, title |-> Undefined, secs |-> Undefined, list |-> <<>>]
DocText(t, secs, list) == [k |-> "doc", top |-> Obj, title |-> t, secs |-> secs, list |-> list]

ItemEntry(id, text, done, dueDate) ==
    [e |-> Obj, id |-> id, text |-> text, done |-> done, dueDate |-> dueDate]
ItemLeaf(x) ==
    [e |-> x, id |-> Undefined, text |-> Undefined, done |-> Undefined, dueDate |-> Undefined]
SecEntry(id, name, items, list) ==
    [e |-> Obj, id |-> id, name |-> name, items |-> items, list |-> list]
SecLeaf(x) ==
    [e |-> x, id |-> Undefined, name |-> Undefined, items |-> Undefined, list |-> <<>>]

\* JSON.stringify({ title, sections }): every in-memory field becomes the
\* JSON value of its type; a property whose value is undefined is dropped,
\* which reads back as undefined.
Stringify(t, secs) ==
    DocText(Str(t), Arr,
        [i \in 1..Len(secs) |->
            SecEntry(secs[i].id, secs[i].name, Arr,
                [j \in 1..Len(secs[i].items) |->
                    ItemEntry(secs[i].items[j].id,
                              Str(secs[i].items[j].text),
                              Bool(secs[i].items[j].done),
                              Str(secs[i].items[j].dueDate))])])

\* safeParse(s, null): JSON.parse, null on a syntax error or a JSON null
safeParse(s) == IF s.k \in {"bad", "none"} THEN LeafText(Null) ELSE s


-----------------------------------------------------------------------------
(* The import pipeline: importJSON's schema check and coercion.            *)

\* mutant: the check forgets Array.isArray and only tests !parsed
InvalidImportFalsyOnly(parsed) == parsed.k = "leaf" /\ ~Truthy(parsed.top)

\* !parsed || !Array.isArray(parsed.sections)
InvalidImport(parsed) ==
    \/ parsed.k = "leaf"       \* falsy, or a value without `sections`
    \/ parsed.secs.t # "array"

\* number of uid() calls among the first k item entries
RECURSIVE ItemUids(_, _)
ItemUids(list, k) ==
    IF k = 0 THEN 0
    ELSE ItemUids(list, k - 1) + (IF Truthy(list[k].id) THEN 0 ELSE 1)

\* number of uid() calls one section entry costs
SectionUids(s) ==
    (IF Truthy(s.id) THEN 0 ELSE 1)
    + (IF s.items.t = "array" THEN ItemUids(s.list, Len(s.list)) ELSE 0)

\* number of uid() calls among the first k section entries
RECURSIVE SectionsUids(_, _)
SectionsUids(list, k) ==
    IF k = 0 THEN 0 ELSE SectionsUids(list, k - 1) + SectionUids(list[k])

\* (s.items || []).map(...) raises a TypeError when s.items is truthy and no
\* array (it has no map), or when an entry `it` is null (it.id, it.text)
ItemsThrow(s) ==
    \/ Truthy(s.items) /\ s.items.t # "array"
    \/ s.items.t = "array" /\ \E j \in 1..Len(s.list) : s.list[j].e.t = "null"

\* parsed.sections.map((s) => ...) raises a TypeError on a null entry (s.id)
MigrateThrows(parsed) ==
    \E i \in 1..Len(parsed.list) :
        parsed.list[i].e.t = "null" \/ ItemsThrow(parsed.list[i])

\* mutant: dueDate coerced like text, String(it.dueDate ?? "")
MigrateItemStringDue(it, n) ==
    [id |-> IF Truthy(it.id) THEN it.id ELSE uid(n),
     text |-> String(Nullish(it.text, Str(""))),
     done |-> Truthy(it.done),
     dueDate |-> String(Nullish(it.dueDate, Str("")))]

\* the item literal of importJSON; n is the serial uid() would return
MigrateItem(it, n) ==
    [id |-> IF Truthy(it.id) THEN it.id ELSE uid(n),
     text |-> String(Nullish(it.text, Str(""))),
     done |-> Truthy(it.done),
     dueDate |-> IF it.dueDate.t = "string" THEN it.dueDate.v ELSE ""]

\* the section literal of importJSON; n0 uid() calls were made before it
MigrateSection(s, n0) ==
    LET own == IF Truthy(s.id) THEN 0 ELSE 1
        src == IF Truthy(s.items) THEN s.list ELSE <<>>
    IN [id |-> IF Truthy(s.id) THEN s.id ELSE uid(n0 + 1),
        name |-> Str(String(Nullish(s.name, Str("Section")))),
        items |-> [j \in 1..Len(src) |->
                      MigrateItem(src[j], n0 + own + ItemUids(src, j - 1) + 1)]]

\* const migrated = parsed.sections.map(...)
Migrated(parsed, n0) ==
    [i \in 1..Len(parsed.list) |->
        MigrateSection(parsed.list[i], n0 + SectionsUids(parsed.list, i - 1))]

\* String(parsed.title || "Check-It")
MigratedTitle(parsed) == String(OrElse(parsed.title, Str("Check-It")))

-----------------------------------------------------------------------------
(* The initial state of `sections`: the seed, or the slot's sections.      *)

\* const base = [...]
Base(n0) ==
    << [id |-> uid(n0 + 1), name |-> Str("General"),
        items |-> << [id |-> uid(n0 + 2), text |-> "Add your first task",
                      done |-> FALSE, dueDate |-> ""] >>] >>

\* mutant: the test forgets Array.isArray
SlotUsableTruthyOnly(data) == data.k = "doc" /\ Truthy(data.secs)

\* data?.sections && Array.isArray(data.sections)
SlotUsable(data) == data.k = "doc" /\ data.secs.t = "array"

\* s.items on a null entry, (s.items || []).map on a non-array, it.text on null
LoadThrows(data) ==
    \E i \in 1..Len(data.list) :
        data.list[i].e.t = "null" \/ ItemsThrow(data.list[i])

\* { ...it, text, done, dueDate }: the id is kept as it is
LoadItem(it) ==
    [id |-> it.id,
     text |-> String(Nullish(it.text, Str(""))),
     done |-> Truthy(it.done),
     dueDate |-> IF it.dueDate.t = "string" THEN it.dueDate.v ELSE ""]

\* { ...s, items }: id and name are kept as they are
LoadSection(s) ==
    LET src == IF Truthy(s.items) THEN s.list ELSE <<>>
    IN [id |-> s.id, name |-> s.name,
        items |-> [j \in 1..Len(src) |-> LoadItem(src[j])]]

\* the useState initializer of `sections`
InitialSections(saved, n0) ==
    LET data == safeParse(saved)
    IN IF SlotUsable(data)
       THEN [i \in 1..Len(data.list) |-> LoadSection(data.list[i])]
       ELSE Base(n0)

\* useState("Check-It")
InitialTitle == "Check-It"

-----------------------------------------------------------------------------
(* Inputs of the handlers.                                                 *)

TitleInputs == {"", "X"}
NameInputs == {""}
TextInputs == {"milk"}
DueInputs == {"2020-01-01"}

\* `Section ${prev.length + 1}`
SectionName(n) ==
    CASE n = 1 -> "Section 1"
      [] n = 2 -> "Section 2"
      [] n = 3 -> "Section 3"
      [] n = 4 -> "Section 4"
      [] OTHER -> "Section 5"

\* the patches the item row's inputs pass to updateItem
Patches ==
    [f : {"done"}, text : {""}, done : BOOLEAN, dueDate : {""}]
    \cup [f : {"text"}, text : TextInputs, done : {FALSE}, dueDate : {""}]
    \cup [f : {"dueDate"}, text : {""}, done : {FALSE}, dueDate : DueInputs]

\* { ...it, ...patch }
ApplyPatch(it, patch) ==
    CASE patch.f = "done" -> [it EXCEPT !.done = patch.done]
      [] patch.f = "text" -> [it EXCEPT !.text = patch.text]
      [] OTHER -> [it EXCEPT !.dueDate = patch.dueDate]

\* the ids the rendered sections and items hand to the handlers
SectionIds == {sections[i].id : i \in 1..Len(sections)}
ItemIds(i) == {sections[i].items[j].id : j \in 1..Len(sections[i].items)}

\* the case of a handler's ids (history): "ok" when a section has the id,
\* and for an item operation an item of such a section has the item id
SectionCase(id) ==
    IF \E i \in 1..Len(sections) : sections[i].id = id THEN "ok" ELSE "absent"
ItemCase(sectionId, itemId) ==
    IF \E i \in 1..Len(sections) :
          /\ sections[i].id = sectionId
          /\ \E j \in 1..Len(sections[i].items) : sections[i].items[j].id = itemId
    THEN "ok" ELSE "absent"

\* an id no section and no item has
AbsentId == Str("zz")

\* an in-flight import: the file's text; own marks a file that exportJSON
\* wrote from the Document [srcTitle, srcSections]; at is the number of ids
\* generated when importJSON was called (history)
Foreign(f, n) ==
    [file |-> f, own |-> FALSE, srcTitle |-> "", srcSections |-> <<>>, at |-> n]
NoImport == Foreign(NoText, 0)

\* the history of a handler: its name, the case of its input or its outcome,
\* the message it passed to notify, and for a drop that went through the
\* toIndex it was called with
OpTo(name, out, msg, to) ==
    [op |-> name, out |-> out, note |-> msg, imp |-> NoImport, seen |-> <<>>, to |-> to]
Op(name, out, msg) == OpTo(name, out, msg, Null)

-----------------------------------------------------------------------------
(* React: the autosave effect and its dependency array.                    *)

\* mutant: the dependency array is [sections]
EffectDepsSectionsOnly(titleChanged, sectionsChanged) == sectionsChanged

\* [title, sections]: the effect runs after a render in which one changed
EffectDeps(titleChanged, sectionsChanged) == titleChanged \/ sectionsChanged

\* localStorage.setItem(LS_KEY, JSON.stringify({ title, sections }))
AutoSave(t, secs, sectionsSet) ==
    IF EffectDeps(t # title, sectionsSet) THEN Stringify(t, secs) ELSE slot

\* a render: totals and sectionTotals are useMemo(..., [sections]) and the
\* projection is useMemo(..., [sections, search, filter]); each calls
\* todayISO() when it is recomputed, which is when a dependency has changed.
\* The rows' overdue flags call todayISO() in every render.
Rerender(sectionsSet, viewSet) ==
    [totals |-> IF sectionsSet THEN today ELSE shown.totals,
     view |-> IF sectionsSet \/ viewSet THEN today ELSE shown.view,
     flags |-> today]

\* the first render
FirstRender(t) == [totals |-> t, view |-> t, flags |-> t]

\* the day the page is first opened on
FirstDay == "2019-12-31"

ClosedConfirm == [open |-> FALSE, sectionId |-> Null]
IdleDrag == [sectionId |-> Null, fromIndex |-> Null]

-----------------------------------------------------------------------------
(* Process start: the App component mounts.                                *)

\* the texts the slot may hold when the page is first opened
InitSlots == {NoText, BadText}

\* App(): the state after the first render and its effects.  When the
\* state initializer throws, nothing is rendered and no effect runs.
Start(saved, n0) ==
    IF SlotUsable(safeParse(saved)) /\ LoadThrows(safeParse(saved))
    THEN [phase |-> "crashed", title |-> InitialTitle, sections |-> <<>>,
          slot |-> saved, nextId |-> n0]
    ELSE [phase |-> "running", title |-> InitialTitle,
          sections |-> InitialSections(saved, n0),
          slot |-> Stringify(InitialTitle, InitialSections(saved, n0)),
          nextId |-> IF SlotUsable(safeParse(saved)) THEN n0 ELSE n0 + 2]

StartOp(saved) ==
    [op |-> "start", out |-> "ok", note |-> "", imp |-> Foreign(saved, 0), seen |-> <<>>,
     to |-> Null]

InitFrom(saved) ==
    /\ phase = Start(saved, 0).phase
    /\ title = Start(saved, 0).title
    /\ sections = Start(saved, 0).sections
    /\ slot = Start(saved, 0).slot
    /\ nextId = Start(saved, 0).nextId
    /\ confirm = ClosedConfirm
    /\ dragRef = IdleDrag
    /\ pending = {}
    /\ search = ""
    /\ filter = "all"
    /\ today = FirstDay
    /\ shown = FirstRender(FirstDay)
    /\ lastOp = StartOp(saved)

Init == \E saved \in InitSlots : InitFrom(saved)

-----------------------------------------------------------------------------
(* The Store operations.                                                   *)

setTitle(t) ==
    /\ phase = "running"
    /\ title' = t
    /\ slot' = AutoSave(t, sections, FALSE)
    /\ lastOp' = Op("setTitle", "ok", "")
    /\ shown' = IF t # title THEN Rerender(FALSE, FALSE) ELSE shown
    /\ UNCHANGED <<today, search, filter, phase, sections, confirm, dragRef, nextId, pending>>

addSection ==
    /\ phase = "running"
    /\ Len(sections) < MaxSections
    /\ nextId < MaxUid
    /\ sections' = Append(sections, [id |-> uid(nextId + 1),
                                     name |-> Str(SectionName(Len(sections) + 1)),
                                     items |-> <<>>])
    /\ nextId' = nextId + 1
    /\ slot' = AutoSave(title, sections', TRUE)
    /\ lastOp' = Op("addSection", "ok", "Section added")
    /\ shown' = Rerender(TRUE, FALSE)
    /\ UNCHANGED <<today, search, filter, phase, title, confirm, dragRef, pending>>

renameSection(id, name) ==
    /\ phase = "running"
    /\ sections' = [i \in 1..Len(sections) |->
                       IF sections[i].id = id
                       THEN [sections[i] EXCEPT !.name = Str(name)]
                       ELSE sections[i]]
    /\ slot' = AutoSave(title, sections', TRUE)
    /\ lastOp' = Op("renameSection", SectionCase(id), "")
    /\ shown' = Rerender(TRUE, FALSE)
    /\ UNCHANGED <<today, search, filter, phase, title, confirm, dragRef, nextId, pending>>

\* mutant: no guard on the section count
requestDeleteSectionUnguarded(id) ==
    /\ phase = "running"
    /\ confirm' = [open |-> TRUE, sectionId |-> id]
    /\ lastOp' = Op("requestDeleteSection", "ok", "")
    /\ shown' = Rerender(FALSE, FALSE)
    /\ UNCHANGED <<today, search, filter, phase, title, sections, dragRef, slot, nextId, pending>>

\* mutant: the guard compares the section count with 0
requestDeleteSectionOffByOne(id) ==
    /\ phase = "running"
    /\ IF Len(sections) = 0
       THEN /\ lastOp' = Op("requestDeleteSection", "refused", "")
            /\ UNCHANGED <<confirm, shown>>
       ELSE /\ confirm' = [open |-> TRUE, sectionId |-> id]
            /\ shown' = Rerender(FALSE, FALSE)
            /\ lastOp' = Op("requestDeleteSection", "ok", "")
    /\ UNCHANGED <<today, search, filter, phase, title, sections, dragRef, slot, nextId, pending>>

requestDeleteSection(id) ==
    /\ phase = "running"
    /\ IF Len(sections) = 1
       THEN /\ lastOp' = Op("requestDeleteSection", "refused", "")
            /\ UNCHANGED <<confirm, shown>>
       ELSE /\ confirm' = [open |-> TRUE, sectionId |-> id]
            /\ shown' = Rerender(FALSE, FALSE)
            /\ lastOp' = Op("requestDeleteSection", "ok", "")
    /\ UNCHANGED <<today, search, filter, phase, title, sections, dragRef, slot, nextId, pending>>

deleteSectionNow ==
    /\ phase = "running"
    /\ confirm.open
    /\ sections' = SelectSeq(sections, LAMBDA s : s.id # confirm.sectionId)
    /\ confirm' = ClosedConfirm
    /\ slot' = AutoSave(title, sections', TRUE)
    /\ lastOp' = Op("deleteSectionNow", "ok", "Section deleted")
    /\ shown' = Rerender(TRUE, FALSE)
    /\ UNCHANGED <<today, search, filter, phase, title, dragRef, nextId, pending>>

cancelDelete ==
    /\ phase = "running"
    /\ confirm.open
    /\ confirm' = ClosedConfirm
    /\ lastOp' = Op("cancelDelete", "ok", "")
    /\ shown' = Rerender(FALSE, FALSE)
    /\ UNCHANGED <<today, search, filter, phase, title, sections, dragRef, slot, nextId, pending>>

\* number of sections among the first k whose id is `id`
RECURSIVE Matches(_, _, _)
Matches(secs, id, k) ==
    IF k = 0 THEN 0
    ELSE Matches(secs, id, k - 1) + (IF secs[k].id = id THEN 1 ELSE 0)

NewItem(n) == [id |-> uid(n), text |-> "New item", done |-> FALSE, dueDate |-> ""]

addItem(sectionId) ==
    /\ phase = "running"
    /\ nextId + Matches(sections, sectionId, Len(sections)) <= MaxUid
    /\ \A i \in 1..Len(sections) :
          sections[i].id = sectionId => Len(sections[i].items) < MaxItems
    /\ sections' = [i \in 1..Len(sections) |->
                       IF sections[i].id = sectionId
                       THEN [sections[i] EXCEPT !.items =
                                Append(@, NewItem(nextId + Matches(sections, sectionId, i)))]
                       ELSE sections[i]]
    /\ nextId' = nextId + Matches(sections, sectionId, Len(sections))
    /\ slot' = AutoSave(title, sections', TRUE)
    /\ lastOp' = Op("addItem", SectionCase(sectionId), "Item added")
    /\ shown' = Rerender(TRUE, FALSE)
    /\ UNCHANGED <<today, search, filter, phase, title, confirm, dragRef, pending>>

\* mutant: the item is looked up in every section
updateItemAnySection(sectionId, itemId, patch) ==
    /\ phase = "running"
    /\ sections' = [i \in 1..Len(sections) |->
                       [sections[i] EXCEPT !.items =
                           [j \in 1..Len(@) |->
                               IF @[j].id = itemId THEN ApplyPatch(@[j], patch) ELSE @[j]]]]
    /\ slot' = AutoSave(title, sections', TRUE)
    /\ lastOp' = Op("updateItem", ItemCase(sectionId, itemId), "")
    /\ shown' = Rerender(TRUE, FALSE)
    /\ UNCHANGED <<today, search, filter, phase, title, confirm, dragRef, nextId, pending>>

updateItem(sectionId, itemId, patch) ==
    /\ phase = "running"
    /\ sections' = [i \in 1..Len(sections) |->
                       IF sections[i].id = sectionId
                       THEN [sections[i] EXCEPT !.items =
                                [j \in 1..Len(@) |->
                                    IF @[j].id = itemId THEN ApplyPatch(@[j], patch) ELSE @[j]]]
                       ELSE sections[i]]
    /\ slot' = AutoSave(title, sections', TRUE)
    /\ lastOp' = Op("updateItem", ItemCase(sectionId, itemId), "")
    /\ shown' = Rerender(TRUE, FALSE)
    /\ UNCHANGED <<today, search, filter, phase, title, confirm, dragRef, nextId, pending>>

deleteItem(sectionId, itemId) ==
    /\ phase = "running"
    /\ sections' = [i \in 1..Len(sections) |->
                       IF sections[i].id = sectionId
                       THEN [sections[i] EXCEPT !.items =
                                SelectSeq(@, LAMBDA it : it.id # itemId)]
                       ELSE sections[i]]
    /\ slot' = AutoSave(title, sections', TRUE)
    /\ lastOp' = Op("deleteItem", ItemCase(sectionId, itemId), "")
    /\ shown' = Rerender(TRUE, FALSE)
    /\ UNCHANGED <<today, search, filter, phase, title, confirm, dragRef, nextId, pending>>

\* mutant: the filter keeps the done items
clearDoneInverted ==
    /\ phase = "running"
    /\ sections' = [i \in 1..Len(sections) |->
                       [sections[i] EXCEPT !.items = SelectSeq(@, LAMBDA it : it.done)]]
    /\ slot' = AutoSave(title, sections', TRUE)
    /\ lastOp' = Op("clearDone", "ok", "Completed cleared")
    /\ shown' = Rerender(TRUE, FALSE)
    /\ UNCHANGED <<today, search, filter, phase, title, confirm, dragRef, nextId, pending>>

\* the "Clear done" button's handler
clearDone ==
    /\ phase = "running"
    /\ sections' = [i \in 1..Len(sections) |->
                       [sections[i] EXCEPT !.items = SelectSeq(@, LAMBDA it : ~it.done)]]
    /\ slot' = AutoSave(title, sections', TRUE)
    /\ lastOp' = Op("clearDone", "ok", "Completed cleared")
    /\ shown' = Rerender(TRUE, FALSE)
    /\ UNCHANGED <<today, search, filter, phase, title, confirm, dragRef, nextId, pending>>

-----------------------------------------------------------------------------
(* Drag and drop.  Indices are 0-based as in the code; a sequence's        *)
(* element at JavaScript index k is its element k + 1 here.                *)

Max(a, b) == IF a > b THEN a ELSE b
Min(a, b) == IF a < b THEN a ELSE b

\* splice's start: a negative index counts from the end, and the index is
\* kept within 0..length
SpliceStart(len, k) == IF k < 0 THEN Max(len + k, 0) ELSE Min(k, len)

\* a.splice(k, 1): the array without its element at index k
RemoveAt(a, k) ==
    IF SpliceStart(Len(a), k) >= Len(a) THEN a
    ELSE [i \in 1..(Len(a) - 1) |-> IF i <= SpliceStart(Len(a), k) THEN a[i] ELSE a[i + 1]]

\* a.splice(k, 0, x): the array with x inserted at index k
InsertAt(a, k, x) ==
    [i \in 1..(Len(a) + 1) |->
        IF i <= SpliceStart(Len(a), k) THEN a[i]
        ELSE IF i = SpliceStart(Len(a), k) + 1 THEN x ELSE a[i - 1]]

\* the value an item has in `const [item] = a.splice(start, 1)` when nothing
\* was removed
NoItem == [id |-> Undefined, text |-> "", done |-> FALSE, dueDate |-> ""]

\* mutant: the two elements are exchanged
arrayMoveSwap(arr, from, to) ==
    LET start == Max(0, Min(Len(arr) - 1, from))
        end == Max(0, Min(Len(arr) - 1, to))
    IN IF start = end THEN arr
       ELSE [i \in 1..Len(arr) |->
                IF i = start + 1 THEN arr[end + 1]
                ELSE IF i = end + 1 THEN arr[start + 1] ELSE arr[i]]

\* mutant: `to` is used as it comes
arrayMoveUnclampedTo(arr, from, to) ==
    LET start == Max(0, Min(Len(arr) - 1, from))
    IN IF start = to THEN arr
       ELSE InsertAt(RemoveAt(arr, start), to,
                     IF start < Len(arr) THEN arr[start + 1] ELSE NoItem)

\* mutant: the item is reinserted one position further
arrayMoveEndOffByOne(arr, from, to) ==
    LET start == Max(0, Min(Len(arr) - 1, from))
        end == Max(0, Min(Len(arr) - 1, to + 1))
    IN IF start = end THEN arr
       ELSE InsertAt(RemoveAt(arr, start), end, arr[start + 1])

arrayMove(arr, from, to) ==
    LET start == Max(0, Min(Len(arr) - 1, from))
        end == Max(0, Min(Len(arr) - 1, to))
    IN IF start = end THEN arr
       ELSE InsertAt(RemoveAt(arr, start), end, arr[start + 1])

onDragStartItem(sectionId, fromIndex) ==
    /\ phase = "running"
    /\ dragRef' = [sectionId |-> sectionId, fromIndex |-> Num(fromIndex)]
    /\ lastOp' = Op("onDragStartItem", "ok", "")
    /\ UNCHANGED <<today, shown, search, filter, phase, title, sections, confirm, slot, nextId, pending>>

\* the case of a drop's input (history): no drag is remembered; the drag
\* started in another section; the drop is on the row the drag started on;
\* any other drop
DropCase(sectionId, toIndex) ==
    IF ~Truthy(dragRef.sectionId) \/ dragRef.fromIndex.t = "null" THEN "idle"
    ELSE IF dragRef.sectionId # sectionId THEN "cross"
    ELSE IF dragRef.fromIndex.n = toIndex THEN "same"
    ELSE "ok"

\* mutant: no test that the drop is in the section the drag started in
onDropItemAnySection(sectionId, toIndex) ==
    /\ phase = "running"
    /\ IF ~Truthy(dragRef.sectionId) \/ dragRef.fromIndex.t = "null"
       THEN /\ lastOp' = Op("onDropItem", DropCase(sectionId, toIndex), "")
            /\ UNCHANGED <<sections, dragRef, slot, shown>>
       ELSE /\ sections' = [i \in 1..Len(sections) |->
                               IF sections[i].id = sectionId
                               THEN [sections[i] EXCEPT !.items =
                                        arrayMove(@, dragRef.fromIndex.n, toIndex)]
                               ELSE sections[i]]
            /\ dragRef' = IdleDrag
            /\ shown' = Rerender(TRUE, FALSE)
            /\ slot' = AutoSave(title, sections', TRUE)
            /\ lastOp' = OpTo("onDropItem", DropCase(sectionId, toIndex), "Reordered",
                              Num(toIndex))
    /\ UNCHANGED <<today, search, filter, phase, title, confirm, nextId, pending>>

onDropItem(sectionId, toIndex) ==
    /\ phase = "running"
    /\ IF ~Truthy(dragRef.sectionId) \/ dragRef.fromIndex.t = "null"
          \/ dragRef.sectionId # sectionId
       THEN /\ lastOp' = Op("onDropItem", DropCase(sectionId, toIndex), "")
            /\ UNCHANGED <<sections, dragRef, slot, shown>>
       ELSE /\ sections' = [i \in 1..Len(sections) |->
                               IF sections[i].id = sectionId
                               THEN [sections[i] EXCEPT !.items =
                                        arrayMove(@, dragRef.fromIndex.n, toIndex)]
                               ELSE sections[i]]
            /\ dragRef' = IdleDrag
            /\ shown' = Rerender(TRUE, FALSE)
            /\ slot' = AutoSave(title, sections', TRUE)
            /\ lastOp' = OpTo("onDropItem", DropCase(sectionId, toIndex), "Reordered",
                              Num(toIndex))
    /\ UNCHANGED <<today, search, filter, phase, title, confirm, nextId, pending>>

-----------------------------------------------------------------------------
(* The derived view: totals.                                               *)

\* the UTF-16 code unit of a one-character string (the characters that occur
\* in dates and in the texts below)
Code(c) ==
    CASE c = " " -> 32 [] c = "-" -> 45
      [] c = "0" -> 48 [] c = "1" -> 49 [] c = "2" -> 50 [] c = "3" -> 51
      [] c = "4" -> 52 [] c = "5" -> 53 [] c = "6" -> 54 [] c = "7" -> 55
      [] c = "8" -> 56 [] c = "9" -> 57
      [] c = "M" -> 77 [] c = "i" -> 105 [] c = "k" -> 107 [] c = "l" -> 108
      [] c = "m" -> 109 [] c = "t" -> 116
      [] OTHER -> 97

\* a < b on strings: the code units are compared from the left, and a proper
\* prefix is less
RECURSIVE StrLess(_, _)
StrLess(a, b) ==
    IF Len(b) = 0 THEN FALSE
    ELSE IF Len(a) = 0 THEN TRUE
    ELSE IF Code(SubSeq(a, 1, 1)) # Code(SubSeq(b, 1, 1))
         THEN Code(SubSeq(a, 1, 1)) < Code(SubSeq(b, 1, 1))
         ELSE StrLess(SubSeq(a, 2, Len(a)), SubSeq(b, 2, Len(b)))

\* the values todayISO() returns while the page is open
Days == {"2019-12-31", "2020-01-01", "2020-01-02"}

\* the day after d, among Days
NextDay(d) == IF d = "2019-12-31" THEN "2020-01-01" ELSE "2020-01-02"

\* midnight passes: todayISO() returns the next day from now on; nothing is
\* rendered
tick ==
    /\ today # "2020-01-02"
    /\ today' = NextDay(today)
    /\ lastOp' = Op("tick", "ok", "")
    /\ UNCHANGED <<search, filter, phase, title, sections, confirm, dragRef, slot, nextId,
                   pending, shown>>

\* mutant: the overdue test forgets !it.done
IsOverdueIgnoresDone(it, t) == it.dueDate # "" /\ StrLess(it.dueDate, t)

\* !it.done && it.dueDate && it.dueDate < t
IsOverdue(it, t) == ~it.done /\ it.dueDate # "" /\ StrLess(it.dueDate, t)

\* items.filter(P).length, for the two filters of the totals
DoneCount(items) == Cardinality({j \in 1..Len(items) : items[j].done})
OverdueCount(items, t) == Cardinality({j \in 1..Len(items) : IsOverdue(items[j], t)})

\* one entry of sectionTotals
SectionTotal(s, t) ==
    [id |-> s.id,
     total |-> Len(s.items),
     done |-> DoneCount(s.items),
     left |-> Max(0, Len(s.items) - DoneCount(s.items)),
     overdue |-> OverdueCount(s.items, t)]

sectionTotals(secs, t) == [i \in 1..Len(secs) |-> SectionTotal(secs[i], t)]

\* the counters of totals' loop after the first k sections
RECURSIVE TotalsLoop(_, _, _)
TotalsLoop(secs, t, k) ==
    IF k = 0 THEN [total |-> 0, done |-> 0, overdue |-> 0]
    ELSE [total |-> TotalsLoop(secs, t, k - 1).total + Len(secs[k].items),
          done |-> TotalsLoop(secs, t, k - 1).done + DoneCount(secs[k].items),
          overdue |-> TotalsLoop(secs, t, k - 1).overdue + OverdueCount(secs[k].items, t)]

totals(secs, t) ==
    LET c == TotalsLoop(secs, t, Len(secs))
    IN [total |-> c.total, done |-> c.done,
        left |-> Max(0, c.total - c.done), overdue |-> c.overdue]

-----------------------------------------------------------------------------
(* The derived view: search, filter and the filtered projection.           *)

Modes == {"all", "today", "overdue"}

\* the search box's onChange
setSearch(q) ==
    /\ phase = "running"
    /\ search' = q
    /\ lastOp' = Op("setSearch", "ok", "")
    /\ shown' = IF q # search THEN Rerender(FALSE, TRUE) ELSE shown
    /\ UNCHANGED <<today, filter, phase, title, sections, confirm, dragRef, slot, nextId, pending>>

\* the filter pills' onClick
setFilter(m) ==
    /\ phase = "running"
    /\ filter' = m
    /\ lastOp' = Op("setFilter", "ok", "")
    /\ shown' = IF m # filter THEN Rerender(FALSE, TRUE) ELSE shown
    /\ UNCHANGED <<today, search, phase, title, sections, confirm, dragRef, slot, nextId, pending>>

\* toLowerCase on one character
LowerChar(c) ==
    CASE c = "A" -> "a" [] c = "B" -> "b" [] c = "C" -> "c" [] c = "D" -> "d"
      [] c = "E" -> "e" [] c = "F" -> "f" [] c = "G" -> "g" [] c = "H" -> "h"
      [] c = "I" -> "i" [] c = "J" -> "j" [] c = "K" -> "k" [] c = "L" -> "l"
      [] c = "M" -> "m" [] c = "N" -> "n" [] c = "O" -> "o" [] c = "P" -> "p"
      [] c = "Q" -> "q" [] c = "R" -> "r" [] c = "S" -> "s" [] c = "T" -> "t"
      [] c = "U" -> "u" [] c = "V" -> "v" [] c = "W" -> "w" [] c = "X" -> "x"
      [] c = "Y" -> "y" [] c = "Z" -> "z"
      [] OTHER -> c

\* s.toLowerCase()
RECURSIVE toLowerCase(_)
toLowerCase(s) ==
    IF Len(s) = 0 THEN ""
    ELSE LowerChar(SubSeq(s, 1, 1)) \o toLowerCase(SubSeq(s, 2, Len(s)))

\* s.trim(): the white space at either end is removed
RECURSIVE trim(_)
trim(s) ==
    IF Len(s) = 0 THEN ""
    ELSE IF SubSeq(s, 1, 1) = " " THEN trim(SubSeq(s, 2, Len(s)))
    ELSE IF SubSeq(s, Len(s), Len(s)) = " " THEN trim(SubSeq(s, 1, Len(s) - 1))
    ELSE s

\* s.includes(q)
includes(s, q) ==
    \E k \in 0..(Len(s) - Len(q)) : SubSeq(s, k + 1, k + Len(q)) = q

passesFilter(it, mode, t) ==
    CASE mode = "today" -> ~it.done /\ it.dueDate # "" /\ it.dueDate = t
      [] mode = "overdue" -> IsOverdue(it, t)
      [] OTHER -> TRUE

\* mutant: the item text is compared as it is written
passesSearchCaseSensitive(it, q) ==
    IF q = "" THEN TRUE ELSE includes(it.text, q)

\* q is search.trim().toLowerCase()
passesSearch(it, q) ==
    IF q = "" THEN TRUE ELSE includes(toLowerCase(it.text), q)

filteredSections(secs, srch, mode, t) ==
    [i \in 1..Len(secs) |->
        [secs[i] EXCEPT !.items =
            SelectSeq(@, LAMBDA it : passesFilter(it, mode, t)
                                     /\ passesSearch(it, toLowerCase(trim(srch))))]]

-----------------------------------------------------------------------------
(* Export and import.                                                      *)

\* exportJSON: the text of the downloaded file
exportJSON == Stringify(title, sections)

\* a file exportJSON wrote from the current Document
Exported ==
    [file |-> exportJSON, own |-> TRUE, srcTitle |-> title, srcSections |-> sections,
     at |-> nextId]

\* importJSON(file) up to `await file.text()`, with at most `limit` imports
\* in flight
importJSONAmong(imp, limit) ==
    /\ phase = "running"
    /\ Cardinality(pending) < limit
    /\ pending' = pending \cup {imp}
    /\ lastOp' = [op |-> "importJSON", out |-> "reading", note |-> "", imp |-> imp,
                  seen |-> <<>>, to |-> Null]
    /\ UNCHANGED <<today, shown, search, filter, phase, title, sections, confirm, dragRef, slot, nextId>>

importJSON(imp) == importJSONAmong(imp, MaxPending)

\* Whether state updates made outside an event handler (here: after the
\* await) are batched into one render.  The root is created outside src/;
\* the spec has the Document replaced in one step.
BatchedUpdates == TRUE

\* the Documents rendered (and autosaved) while setTitle(t1); setSections(s1)
\* runs on the Document [t0, s0]
Renders(t0, s0, t1, s1) ==
    IF BatchedUpdates
    THEN << [title |-> t1, sections |-> s1] >>
    ELSE << [title |-> t1, sections |-> s0], [title |-> t1, sections |-> s1] >>

\* mutant: the import forgets setTitle
ImportedDocumentKeepTitle(parsed, n0) ==
    [title |-> title, sections |-> Migrated(parsed, n0)]

\* mutant: the imported sections are appended to the current ones
ImportedDocumentAppended(parsed, n0) ==
    [title |-> MigratedTitle(parsed), sections |-> sections \o Migrated(parsed, n0)]

\* setTitle(String(parsed.title || "Check-It")); setSections(migrated)
ImportedDocument(parsed, n0) ==
    [title |-> MigratedTitle(parsed), sections |-> Migrated(parsed, n0)]

\* importJSON after `await file.text()`
importResolved(imp) ==
    /\ phase = "running"
    /\ imp \in pending
    /\ pending' = pending \ {imp}
    /\ LET parsed == safeParse(imp.file)
       IN IF InvalidImport(parsed)
          THEN /\ lastOp' = [op |-> "importResolved", out |-> "invalid",
                             note |-> "Invalid JSON", imp |-> imp, seen |-> <<>>,
                             to |-> Null]
               /\ shown' = Rerender(FALSE, FALSE)
               /\ UNCHANGED <<title, sections, slot, nextId>>
          ELSE IF MigrateThrows(parsed)
          THEN /\ lastOp' = [op |-> "importResolved", out |-> "threw", imp |-> imp,
                             seen |-> <<>>, to |-> Null]
               /\ UNCHANGED <<title, sections, slot, nextId, shown>>
          ELSE /\ nextId + SectionsUids(parsed.list, Len(parsed.list))
                    <= MaxUid + ImportUids
               /\ title' = ImportedDocument(parsed, nextId).title
               /\ sections' = ImportedDocument(parsed, nextId).sections
               /\ nextId' = nextId + SectionsUids(parsed.list, Len(parsed.list))
               /\ slot' = AutoSave(title', sections', TRUE)
               /\ shown' = Rerender(TRUE, FALSE)
               /\ lastOp' = [op |-> "importResolved", out |-> "ok",
                             note |-> "Imported", imp |-> imp,
                             seen |-> Renders(title, sections, title', sections'),
                             to |-> Null]
    /\ UNCHANGED <<today, search, filter, phase, confirm, dragRef>>

\* the page is closed and opened again: App mounts from the slot
restart ==
    /\ Start(slot, nextId).nextId <= MaxUid + ImportUids
    /\ phase' = Start(slot, nextId).phase
    /\ title' = Start(slot, nextId).title
    /\ sections' = Start(slot, nextId).sections
    /\ slot' = Start(slot, nextId).slot
    /\ nextId' = Start(slot, nextId).nextId
    /\ confirm' = ClosedConfirm
    /\ dragRef' = IdleDrag
    /\ pending' = {}
    /\ search' = ""
    /\ filter' = "all"
    /\ shown' = FirstRender(today)
    /\ UNCHANGED today
    /\ lastOp' = StartOp(slot)

-----------------------------------------------------------------------------
(* The files offered to the import.                                        *)

\* texts the import rejects
InvalidFiles ==
    { BadText,                                  \* {not json
      LeafText(Null),                           \* null
      LeafText(Num(5)),                         \* 5
      LeafText(Str("x")),                       \* "x"
      LeafText(Arr),                            \* []
      DocText(Undefined, Undefined, <<>>),      \* {}
      DocText(Str("T"), Str("x"), <<>>),        \* {"title":"T","sections":"x"}
      DocText(Str("T"), Obj, <<>>),             \* {"title":"T","sections":{}}
      DocText(Str("T"), Null, <<>>) }           \* {"title":"T","sections":null}

ItemA == ItemEntry(Str("i"), Str("t"), Bool(TRUE), Str("2020-01-01"))
\* {"text":"t","done":"yes","dueDate":5}
ItemE == ItemEntry(Undefined, Str("t"), Str("yes"), Num(5))
\* {"id":5,"text":5,"done":0,"dueDate":null}
ItemN == ItemEntry(Num(5), Num(5), Num(0), Null)

\* texts that pass the schema check and whose coercion completes
CoercibleFiles ==
    { DocText(Undefined, Arr, <<>>),                                    \* {"sections":[]}
      DocText(Undefined, Arr, << SecEntry(Undefined, Str("X"), Arr, <<ItemE>>) >>),
      DocText(Str("T"), Arr, << SecEntry(Str("a"), Str("A"), Arr, <<ItemA>>) >>),
      DocText(Str(""), Arr, << SecEntry(Str("a"), Str(""), Arr, <<ItemA>>),
                               SecEntry(Str("a"), Null, Arr, <<ItemA>>) >>),
      DocText(Num(5), Arr, << SecLeaf(Num(5)), SecLeaf(Str("s")) >>),
      DocText(Null, Arr, << SecEntry(Num(5), Num(5), Null, <<>>) >>),
      DocText(Num(0), Arr, << SecEntry(Str("b"), Undefined, Arr,
                                       <<ItemLeaf(Num(5)), ItemN>>) >>) }

\* texts that pass the schema check and whose coercion raises a TypeError
ThrowingFiles ==
    { DocText(Str("T"), Arr, << SecLeaf(Null) >>),                      \* [null]
      DocText(Str("T"), Arr, << SecEntry(Str("a"), Str("A"), Num(5), <<>>) >>),
      DocText(Str("T"), Arr, << SecEntry(Str("a"), Str("A"), Str("x"), <<>>) >>),
      DocText(Str("T"), Arr, << SecEntry(Str("a"), Str("A"), Obj, <<>>) >>),
      DocText(Str("T"), Arr, << SecEntry(Str("a"), Str("A"), Arr, <<ItemLeaf(Null)>>) >>) }

ImportFiles == InvalidFiles \cup CoercibleFiles \cup ThrowingFiles

-----------------------------------------------------------------------------
(* The specifications.                                                     *)

StoreOps(patches) ==
    \/ \E t \in TitleInputs : setTitle(t)
    \/ addSection
    \/ \E id \in SectionIds, name \in NameInputs : renameSection(id, name)
    \/ \E id \in SectionIds : requestDeleteSection(id)
    \/ deleteSectionNow
    \/ cancelDelete
    \/ \E id \in SectionIds : addItem(id)
    \/ \E i \in 1..Len(sections) : \E itemId \in ItemIds(i), patch \in patches :
          updateItem(sections[i].id, itemId, patch)
    \/ \E i \in 1..Len(sections) : \E itemId \in ItemIds(i) :
          deleteItem(sections[i].id, itemId)
    \/ clearDone
    \/ \E i \in 1..Len(sections) : \E k \in 0..(Len(sections[i].items) - 1) :
          onDragStartItem(sections[i].id, k)
    \/ \E i \in 1..Len(sections) : \E k \in 0..(Len(sections[i].items) - 1) :
          onDropItem(sections[i].id, k)

StoreOp == StoreOps(Patches)

\* the checkbox's patches alone
DonePatches == {p \in Patches : p.f = "done"}

\* the files of the full specification: one the schema check rejects, one
\* whose coercion throws, and three it accepts
MainFiles ==
    { BadText,
      DocText(Str("T"), Arr, << SecLeaf(Null) >>),
      DocText(Undefined, Arr, <<>>),
      DocText(Str("T"), Arr, << SecEntry(Str("a"), Str("A"), Arr, <<ItemA>>) >>),
      DocText(Str(""), Arr, << SecEntry(Str("a"), Str(""), Arr, <<ItemA>>),
                               SecEntry(Str("a"), Null, Arr, <<ItemA>>) >>) }

\* every handler; of updateItem's call sites the checkbox's
Next ==
    \/ StoreOps(DonePatches)
    \/ \E f \in MainFiles : importJSON(Foreign(f, nextId))
    \/ \E imp \in pending : importResolved(imp)
    \/ restart

Spec == Init /\ [][Next]_vars

\* the Store alone, from the seed Document
SpecStore == InitFrom(NoText) /\ [][StoreOp]_vars

\* the import pipeline on every file, on a Document the Store has edited
NextImport ==
    \/ \E t \in TitleInputs : setTitle(t)
    \/ addSection
    \/ \E f \in ImportFiles : importJSON(Foreign(f, nextId))
    \/ \E imp \in pending : importResolved(imp)
    \/ restart

SpecImport == Init /\ [][NextImport]_vars

\* the Store, and the import of a file exported from the current Document
NextRoundTrip ==
    \/ pending = {} /\ StoreOp
    \/ importJSON(Exported)
    \/ \E imp \in pending : importResolved(imp)

SpecRoundTrip == InitFrom(NoText) /\ [][NextRoundTrip]_vars

\* a Document an earlier session left in the slot: a section with the items
\* A, B, C and a section with the item D
ReorderSections ==
    << [id |-> Str("a"), name |-> Str("First"),
        items |-> << [id |-> Str("1"), text |-> "A", done |-> FALSE, dueDate |-> ""],
                     [id |-> Str("2"), text |-> "B", done |-> FALSE, dueDate |-> ""],
                     [id |-> Str("3"), text |-> "C", done |-> FALSE, dueDate |-> ""] >>],
       [id |-> Str("b"), name |-> Str("Second"),
        items |-> << [id |-> Str("4"), text |-> "D", done |-> FALSE, dueDate |-> ""] >>] >>

ReorderSlot == Stringify("Check-It", ReorderSections)

\* the numbers arrayMove is applied to: the indices of the section's rows,
\* and one beyond either end
MoveIndices(i) == (-1)..Len(sections[i].items)

\* drag and drop on that Document, while items are deleted
NextReorder ==
    \/ \E i \in 1..Len(sections) : \E k \in MoveIndices(i) :
          onDragStartItem(sections[i].id, k)
    \/ \E i \in 1..Len(sections) : \E k \in MoveIndices(i) :
          onDropItem(sections[i].id, k)
    \/ \E i \in 1..Len(sections) : \E itemId \in ItemIds(i) :
          deleteItem(sections[i].id, itemId)

SpecReorder == InitFrom(ReorderSlot) /\ [][NextReorder]_vars

\* a Document an earlier session left in the slot, with texts and due dates
\* for the search and the filter
ViewSections ==
    << [id |-> Str("a"), name |-> Str("Shop"),
        items |-> << [id |-> Str("1"), text |-> "Milk", done |-> FALSE,
                      dueDate |-> "2020-01-01"],
                     [id |-> Str("2"), text |-> "tea", done |-> FALSE,
                      dueDate |-> "2020-01-01"],
                     [id |-> Str("3"), text |-> "oat milk", done |-> FALSE,
                      dueDate |-> ""] >>],
       [id |-> Str("b"), name |-> Str("Later"),
        items |-> << [id |-> Str("4"), text |-> "MILK", done |-> FALSE,
                      dueDate |-> "2020-01-02"] >>] >>

ViewSlot == Stringify("Check-It", ViewSections)

\* what is typed into the search box
SearchInputs == {"", "milk", "MILK", " ", " milk ", "k t"}

\* the search box, the filter pills and the items' checkboxes
NextView ==
    \/ \E q \in SearchInputs : setSearch(q)
    \/ \E m \in Modes : setFilter(m)
    \/ \E i \in 1..Len(sections) : \E itemId \in ItemIds(i), patch \in DonePatches :
          updateItem(sections[i].id, itemId, patch)

SpecView == InitFrom(ViewSlot) /\ [][NextView]_vars

\* a Document an earlier session left in the slot: a section with a done and
\* an undone item and a section with an undone item
EditSections ==
    << [id |-> Str("a"), name |-> Str("First"),
        items |-> << [id |-> Str("1"), text |-> "A", done |-> TRUE, dueDate |-> ""],
                     [id |-> Str("2"), text |-> "B", done |-> FALSE, dueDate |-> ""] >>],
       [id |-> Str("b"), name |-> Str("Second"),
        items |-> << [id |-> Str("3"), text |-> "C", done |-> FALSE, dueDate |-> ""] >>] >>

EditSlot == Stringify("Check-It", EditSections)

\* the ids handed to the handlers: those of the Document and one it lacks
EditSectionIds == SectionIds \cup {AbsentId}
EditItemIds == UNION {ItemIds(i) : i \in 1..Len(sections)} \cup {AbsentId}

\* the checkbox's and the text input's patches
EditPatches == {p \in Patches : p.f \in {"done", "text"}}

\* the operations that edit or remove by id, "Clear done", and addItem for
\* a section that is gone
NextEdit ==
    \/ \E id \in EditSectionIds, name \in NameInputs : renameSection(id, name)
    \/ addItem(AbsentId)
    \/ \E sectionId \in EditSectionIds, itemId \in EditItemIds, patch \in EditPatches :
          updateItem(sectionId, itemId, patch)
    \/ \E sectionId \in EditSectionIds, itemId \in EditItemIds :
          deleteItem(sectionId, itemId)
    \/ clearDone

SpecEdit == InitFrom(EditSlot) /\ [][NextEdit]_vars

\* the rows on screen: filteredSections.map((s) => ... s.items.map((it, idx)
\* => ...)) hands each row's handlers the section's id and the row's index
\* in the projection
ShownRows == filteredSections(sections, search, filter, shown.view)

\* drag and drop on the rows on screen, under the search box and the filter
\* pills
NextShownDrag ==
    \/ \E q \in {"", "milk"} : setSearch(q)
    \/ \E m \in Modes : setFilter(m)
    \/ \E i \in 1..Len(sections) : \E idx \in 0..(Len(ShownRows[i].items) - 1) :
          onDragStartItem(ShownRows[i].id, idx)
    \/ \E i \in 1..Len(sections) : \E idx \in 0..(Len(ShownRows[i].items) - 1) :
          onDropItem(ShownRows[i].id, idx)

SpecShownDrag == InitFrom(ViewSlot) /\ [][NextShownDrag]_vars

\* a file with two sections of one id: A, B in the first and C, D in the
\* second
TwinFile ==
    DocText(Str("T"), Arr,
        << SecEntry(Str("a"), Str("One"), Arr,
                    << ItemEntry(Str("1"), Str("A"), Bool(FALSE), Str("")),
                       ItemEntry(Str("2"), Str("B"), Bool(FALSE), Str("")) >>),
           SecEntry(Str("a"), Str("Two"), Arr,
                    << ItemEntry(Str("3"), Str("C"), Bool(FALSE), Str("")),
                       ItemEntry(Str("4"), Str("D"), Bool(FALSE), Str("")) >>) >>)

\* drag and drop, on the Document of SpecReorder and after that file's import
NextTwinDrag ==
    \/ \E i \in 1..Len(sections) : \E k \in 0..(Len(sections[i].items) - 1) :
          onDragStartItem(sections[i].id, k)
    \/ \E i \in 1..Len(sections) : \E k \in 0..(Len(sections[i].items) - 1) :
          onDropItem(sections[i].id, k)
    \/ importJSON(Foreign(TwinFile, nextId))
    \/ \E imp \in pending : importResolved(imp)

SpecTwinDrag == InitFrom(ReorderSlot) /\ [][NextTwinDrag]_vars

\* the files of overlapping imports: one with title and ids, one without,
\* one the schema check rejects and one whose coercion throws
OverlapFiles ==
    { DocText(Str("T"), Arr, << SecEntry(Str("a"), Str("A"), Arr, <<ItemA>>) >>),
      DocText(Undefined, Arr, << SecEntry(Undefined, Str("X"), Arr, <<ItemE>>) >>),
      BadText,
      DocText(Str("T"), Arr, << SecLeaf(Null) >>) }

\* imports that overlap, and the title edited meanwhile
NextOverlap ==
    \/ \E f \in OverlapFiles : importJSONAmong(Foreign(f, nextId), MaxOverlap)
    \/ \E imp \in pending : importResolved(imp)
    \/ \E t \in TitleInputs : setTitle(t)

SpecOverlap == InitFrom(NoText) /\ [][NextOverlap]_vars

\* the page left open over midnight: the title, the filter pills and the
\* items' checkboxes
NextClock ==
    \/ tick
    \/ \E t \in TitleInputs : setTitle(t)
    \/ \E m \in Modes : setFilter(m)
    \/ \E i \in 1..Len(sections) : \E itemId \in ItemIds(i), patch \in DonePatches :
          updateItem(sections[i].id, itemId, patch)

SpecClock == InitFrom(ViewSlot) /\ [][NextClock]_vars

\* the texts an edited or damaged slot may hold when the page is opened
LoadSlots == {NoText} \cup InvalidFiles \cup CoercibleFiles \cup ThrowingFiles

\* the page opened on any slot, then edited and opened again
NextLoad ==
    \/ \E t \in TitleInputs : setTitle(t)
    \/ addSection
    \/ restart

SpecLoad == (\E saved \in LoadSlots : InitFrom(saved)) /\ [][NextLoad]_vars

-----------------------------------------------------------------------------
(* The claims.                                                             *)

ImportDone == lastOp.op = "importResolved"
ImportOk == ImportDone /\ lastOp.out = "ok"
TheFile == lastOp.imp.file

\* C1: after any sequence of Store operations from the seed Document the
\* Document has at least one section.
C1_StoreKeepsASection == Len(sections) >= 1

\* C1 witness: a confirmed deletion has removed a section and one is left
C1_Witness == lastOp.op = "deleteSectionNow" /\ Len(sections) = 1

\* C2: the Document has at least one section in every reachable state, also
\* right after a successful import and right after the load from the slot.
C2_AlwaysASection == phase = "running" => Len(sections) >= 1

\* C3: requestDeleteSection on the sole remaining section is refused: the
\* confirm dialog is not opened and title, sections (with their items) and
\* the slot stay as they are.
C3_LastSectionRefused ==
    [][(lastOp'.op = "requestDeleteSection" /\ Len(sections) = 1)
        => (confirm' = confirm /\ ~confirm'.open /\ title' = title
            /\ sections' = sections /\ slot' = slot)]_vars

\* C3 witness: a delete request on a sole section has been refused
C3_Witness ==
    /\ lastOp.op = "requestDeleteSection"
    /\ lastOp.out = "refused"
    /\ Len(sections) = 1
    /\ ~confirm.open

\* C4: importing the export of a Document that the Store produced from the
\* seed yields that Document: same title, same sections, same items.
C4_RoundTrip ==
    (ImportDone /\ lastOp.imp.own)
        => (lastOp.out = "ok"
            /\ title = lastOp.imp.srcTitle
            /\ sections = lastOp.imp.srcSections)

\* the text is no JSON, or JSON for something that is no object with an
\* array-valued `sections`
NotADocument(f) == f.k \in {"bad", "leaf"} \/ (f.k = "doc" /\ f.secs.t # "array")

\* C5: an import of a text that is no JSON, or no object with an array-valued
\* `sections`, leaves title and sections as they are, writes nothing to the
\* slot and notifies the failure.
C5_InvalidImportRejected ==
    [][(lastOp'.op = "importResolved" /\ NotADocument(lastOp'.imp.file))
        => (title' = title /\ sections' = sections /\ slot' = slot
            /\ lastOp'.out = "invalid" /\ lastOp'.note = "Invalid JSON")]_vars

\* C5 witness: an object whose `sections` is no array was rejected while the
\* Document carried an edited title
C5_Witness ==
    /\ ImportDone
    /\ lastOp.out = "invalid"
    /\ TheFile.k = "doc"
    /\ title = "X"

\* C6: once the text has passed the schema check, the import completes and
\* produces a Document, whatever the array holds.
C6_CoercionTotal ==
    (ImportDone /\ TheFile.k = "doc" /\ TheFile.secs.t = "array") => lastOp.out = "ok"

\* the items array an accepted section entry stands for
ItemsOf(s) == IF s.items.t = "array" THEN s.list ELSE <<>>

\* the id was generated by this import: one of the ids handed out since the
\* import resolved
FreshId(id) ==
    /\ id.t = "string" /\ id.v = "uid"
    /\ id.n > nextId - SectionsUids(TheFile.list, Len(TheFile.list))
    /\ id.n <= nextId

\* the generated ids the Document holds
GeneratedIds ==
    {sections[i].id : i \in {k \in 1..Len(sections) : FreshId(sections[k].id)}}
    \cup UNION {{sections[i].items[j].id :
                    j \in {k \in 1..Len(sections[i].items) :
                              FreshId(sections[i].items[k].id)}} :
                i \in 1..Len(sections)}

\* C7: what a successful import makes of the fields: done is the truthiness
\* of the input, dueDate the input when it is a string and "" otherwise, text
\* a string ("" when absent), a section name a string ("Section" when
\* absent), an id the input's id when that is truthy and a generated id
\* otherwise, the title the input's title or "Check-It" when absent or falsy.
C7_CoercedFields ==
    ImportOk =>
        /\ title = (IF Truthy(TheFile.title) THEN String(TheFile.title) ELSE "Check-It")
        /\ Len(sections) = Len(TheFile.list)
        /\ Cardinality(GeneratedIds) = SectionsUids(TheFile.list, Len(TheFile.list))
        /\ \A i \in 1..Len(sections) :
            LET s == TheFile.list[i]
                m == sections[i]
            IN /\ m.name.t = "string"
               /\ s.name.t = "undefined" => m.name = Str("Section")
               /\ s.name.t = "string" => m.name = s.name
               /\ IF Truthy(s.id) THEN m.id = s.id ELSE FreshId(m.id)
               /\ Len(m.items) = Len(ItemsOf(s))
               /\ \A j \in 1..Len(m.items) :
                    LET it == ItemsOf(s)[j]
                        mi == m.items[j]
                    IN /\ mi.done = Truthy(it.done)
                       /\ mi.dueDate = (IF it.dueDate.t = "string" THEN it.dueDate.v ELSE "")
                       /\ it.text.t = "undefined" => mi.text = ""
                       /\ it.text.t = "string" => mi.text = it.text.v
                       /\ IF Truthy(it.id) THEN mi.id = it.id ELSE FreshId(mi.id)

\* C7 witness: {"sections":[{"name":"X","items":[{"text":"t","done":"yes",
\* "dueDate":5}]}]} has been imported
C7_Witness ==
    /\ ImportOk
    /\ Len(TheFile.list) = 1
    /\ Len(TheFile.list[1].list) = 1
    /\ TheFile.list[1].list[1].done = Str("yes")
    /\ TheFile.list[1].list[1].dueDate = Num(5)
    /\ sections[1].name = Str("X")
    /\ sections[1].items[1].done
    /\ sections[1].items[1].dueDate = ""

C9_SlotIsCurrent == phase = "running" => slot = Stringify(title, sections)

\* C9 witness: the title was edited and the slot holds the edited title
C9_Witness ==
    /\ lastOp.op = "setTitle"
    /\ title = "X"
    /\ slot.title = Str("X")
    /\ Len(slot.list) = 2

\* C10: after a start with a slot that holds a Document, title and sections
\* are those of the slot, and the first autosave leaves the slot's title as
\* it was.
C10_StartRestoresSlot ==
    (lastOp.op = "start" /\ lastOp.imp.file.k = "doc" /\ phase = "running")
        => (Str(title) = lastOp.imp.file.title /\ slot = lastOp.imp.file)

\* the inequalities of one totals record
TotalsConsistent(T) ==
    /\ T.left = T.total - T.done
    /\ T.left >= 0
    /\ T.done <= T.total
    /\ T.overdue <= T.total - T.done

\* C11: for the whole Document and for every section, whatever today is:
\* left = total - done, left >= 0, done <= total, overdue <= total - done.
C11_TotalsConsistent ==
    phase = "running" =>
        \A t \in Days :
            /\ TotalsConsistent(totals(sections, t))
            /\ \A i \in 1..Len(sections) : TotalsConsistent(sectionTotals(sections, t)[i])

\* C11 witness: two items, one done and the other overdue
C11_Witness ==
    /\ phase = "running"
    /\ \E t \in Days :
          /\ totals(sections, t).total = 2
          /\ totals(sections, t).done = 1
          /\ totals(sections, t).overdue = 1
          /\ totals(sections, t).left = 1

\* the step is a drop in the section the drag started in
Dropped == lastOp'.op = "onDropItem" /\ lastOp'.out \in {"ok", "same"}

\* the sections such a drop addresses
DropTargets == {i \in 1..Len(sections) : sections[i].id = dragRef.sectionId}

InRange(k, arr) == k >= 0 /\ k <= Len(arr) - 1
Clamp(k, arr) == IF k < 0 THEN 0 ELSE IF k > Len(arr) - 1 THEN Max(0, Len(arr) - 1) ELSE k

\* the sequence without its element at (0-based) index k
Others(seq, k) == [i \in 1..(Len(seq) - 1) |-> IF i <= k THEN seq[i] ELSE seq[i + 1]]

\* seq with its element at index s taken out and put back at index e
Reinsert(seq, s, e) ==
    [i \in 1..Len(seq) |->
        IF i = e + 1 THEN seq[s + 1]
        ELSE Others(seq, s)[IF i <= e THEN i ELSE i - 1]]

Texts(items) == [j \in 1..Len(items) |-> items[j].text]

\* C12: a reorder with in-range indices takes the item at fromIndex out and
\* puts it back so that it ends at position toIndex, the other items keeping
\* their relative order; [A,B,C] moved from 0 to 2 gives [B,C,A].
C12_MoveInRange ==
    [][Dropped =>
        \A i \in DropTargets :
            LET arr == sections[i].items
                from == dragRef.fromIndex.n
                to == lastOp'.to.n
                r == sections'[i].items
            IN (InRange(from, arr) /\ InRange(to, arr)) =>
                  /\ Len(r) = Len(arr)
                  /\ r[to + 1] = arr[from + 1]
                  /\ Others(r, to) = Others(arr, from)
                  /\ (Texts(arr) = <<"A", "B", "C">> /\ from = 0 /\ to = 2)
                        => Texts(r) = <<"B", "C", "A">>]_vars

\* C12 witness: [A,B,C] has been moved from 0 to 2 and is [B,C,A]
C12_Witness ==
    /\ lastOp.op = "onDropItem" /\ lastOp.out = "ok"
    /\ lastOp.to = Num(2)
    /\ Texts(sections[1].items) = <<"B", "C", "A">>

\* C13: a reorder with fromIndex or toIndex outside [0, length-1] gives the
\* sequence the reorder with both indices clamped into that range gives; on
\* an empty sequence it gives the empty sequence.
C13_MoveClamps ==
    [][Dropped =>
        \A i \in DropTargets :
            LET arr == sections[i].items
                from == dragRef.fromIndex.n
                to == lastOp'.to.n
                r == sections'[i].items
            IN /\ Len(arr) = 0 => r = <<>>
               /\ (Len(arr) > 0 /\ ~(InRange(from, arr) /\ InRange(to, arr)))
                     => r = Reinsert(arr, Clamp(from, arr), Clamp(to, arr))]_vars

\* C13 witness: the last of [A,B,C] has been moved to -1 (before the start)
\* and the section is [C,A,B]
C13_Witness ==
    /\ lastOp.op = "onDropItem" /\ lastOp.out = "ok"
    /\ lastOp.to = Num(-1)
    /\ Texts(sections[1].items) = <<"C", "A", "B">>

\* C13 witness for the empty sequence: a drop went through on a section
\* without items
C13_WitnessEmpty ==
    /\ lastOp.op = "onDropItem" /\ lastOp.out \in {"ok", "same"}
    /\ \E i \in 1..Len(sections) : sections[i].items = <<>>
    /\ \A i \in 1..Len(sections) : Texts(sections[i].items) \in {<<>>, <<"A", "B", "C">>}

\* C14: a reorder from an index to the same index leaves the item order of
\* the section (and everything else in the Document) as it is.
C14_MoveToSelf ==
    [][Dropped =>
        \A i \in DropTargets :
            (InRange(dragRef.fromIndex.n, sections[i].items)
             /\ dragRef.fromIndex = lastOp'.to)
                => sections' = sections]_vars

\* C14 witness: a drop at the middle row of three, from the middle row
C14_Witness ==
    /\ lastOp.op = "onDropItem" /\ lastOp.out = "same"
    /\ lastOp.to = Num(1)
    /\ Texts(sections[1].items) = <<"A", "B", "C">>

\* C15: after every drop event the drag state is idle, whether the drop
\* moved an item, was a same-position drop or was in another section than
\* the drag started in.
C15_DropEndsIdle == lastOp.op = "onDropItem" => dragRef = IdleDrag

\* C16: a drop in another section than the one the drag started in changes
\* nothing in the Document.
C16_CrossSectionNoOp ==
    [][(lastOp'.op = "onDropItem" /\ lastOp'.out = "cross")
        => (title' = title /\ sections' = sections /\ slot' = slot)]_vars

\* C16 witness: a drag that started in one section was dropped in the other
C16_Witness ==
    /\ lastOp.op = "onDropItem"
    /\ lastOp.out = "cross"
    /\ Truthy(dragRef.sectionId)
    /\ Len(sections) = 2

\* the mode predicate of the claim
ModePredicate(it, mode, t) ==
    CASE mode = "today" -> ~it.done /\ it.dueDate = t
      [] mode = "overdue" -> ~it.done /\ it.dueDate # "" /\ StrLess(it.dueDate, t)
      [] OTHER -> TRUE

\* q is a case-insensitive substring of the text (true when q is empty)
MatchesText(it, q) == q = "" \/ includes(toLowerCase(it.text), toLowerCase(q))

\* the projection is made of the items that satisfy the mode predicate and
\* match q, in their order, one entry per section in the sections' order
ProjectionIs(q) ==
    \A t \in Days :
        LET F == filteredSections(sections, search, filter, t)
        IN /\ Len(F) = Len(sections)
           /\ \A i \in 1..Len(F) :
                 /\ F[i].id = sections[i].id
                 /\ F[i].name = sections[i].name
                 /\ F[i].items = SelectSeq(sections[i].items,
                        LAMBDA it : ModePredicate(it, filter, t) /\ MatchesText(it, q))

\* C17: an item is in a section's filtered projection exactly when it
\* satisfies the mode predicate and the search string, as given, is a
\* case-insensitive substring of its text; the projected items keep their
\* order and the projection has one entry per section in the sections' order.
C17_ProjectionAsGiven == ProjectionIs(search)

\* C17 as amended: the same with the search string taken without the white
\* space at its ends.
C17_ProjectionTrimmed == ProjectionIs(trim(search))

\* C17 witness: mode overdue and the search " milk " show, on 2020-01-02, the
\* item Milk alone
C17_Witness ==
    /\ filter = "overdue"
    /\ search = " milk "
    /\ Texts(filteredSections(sections, search, filter, "2020-01-02")[1].items) = <<"Milk">>
    /\ filteredSections(sections, search, filter, "2020-01-02")[2].items = <<>>
    /\ Len(sections[1].items) = 3

\* C18: an item that is not done and has a non-empty dueDate before today is
\* counted as overdue; updateItem with done = true on it lowers the overdue
\* count by exactly one and leaves its dueDate, text and id as they are.
\* (updateItem keeps the number and the order of the items; the item the
\* checkbox was ticked on is one that is done after the step.)
C18_DoneClearsOverdue ==
    [][lastOp'.op = "updateItem"
        => \A t \in Days : \A i \in 1..Len(sections) : \A j \in 1..Len(sections[i].items) :
              LET it == sections[i].items[j]
                  after == sections'[i].items[j]
              IN (/\ ~it.done /\ it.dueDate # "" /\ StrLess(it.dueDate, t)
                  /\ after.done)
                 => /\ totals(sections, t).overdue >= 1
                    /\ sectionTotals(sections, t)[i].overdue >= 1
                    /\ totals(sections', t).overdue = totals(sections, t).overdue - 1
                    /\ after.dueDate = it.dueDate
                    /\ after.text = it.text
                    /\ after.id = it.id]_vars

\* the section ids are pairwise distinct
DistinctSectionIds(secs) ==
    \A i, k \in 1..Len(secs) : i # k => secs[i].id # secs[k].id

\* the item ids are pairwise distinct within the Document
DistinctItemIds(secs) ==
    \A i, k \in 1..Len(secs) :
        \A j \in 1..Len(secs[i].items) : \A l \in 1..Len(secs[k].items) :
            (i # k \/ j # l) => secs[i].items[j].id # secs[k].items[l].id

\* C19: a confirmed section deletion never leaves the Document with zero
\* sections, also when the Document changed between the delete request and
\* the confirmation.  Stated for Documents that have a section and whose
\* section ids are distinct, where the confirmation removes one section at
\* most.
C19_ConfirmKeepsASection ==
    [][(lastOp'.op = "deleteSectionNow" /\ Len(sections) >= 1
        /\ DistinctSectionIds(sections))
        => Len(sections') >= 1]_vars

\* C20: in every reachable state the section ids are pairwise distinct and
\* the item ids are pairwise distinct within the Document.
C20_DistinctIds ==
    phase = "running" => DistinctSectionIds(sections) /\ DistinctItemIds(sections)

-----------------------------------------------------------------------------
(* C21, C22: the start from the slot.                                      *)

\* the page has just been opened
Started == lastOp.op = "start"
\* the text the slot held then
TheSlot == safeParse(lastOp.imp.file)

\* two ids agree when they are equal or both came from uid()
IdAgrees(x, y) == x = y \/ (x.t = "string" /\ x.v = "uid" /\ y.t = "string" /\ y.v = "uid")

ItemsAgree(a, b) ==
    /\ Len(a) = Len(b)
    /\ \A j \in 1..Len(a) :
          /\ IdAgrees(a[j].id, b[j].id)
          /\ a[j].text = b[j].text
          /\ a[j].done = b[j].done
          /\ a[j].dueDate = b[j].dueDate

SectionsAgree(a, b) ==
    /\ Len(a) = Len(b)
    /\ \A i \in 1..Len(a) :
          /\ IdAgrees(a[i].id, b[i].id)
          /\ a[i].name = b[i].name
          /\ ItemsAgree(a[i].items, b[i].items)

\* C21: a start from a slot text that the import would accept and coerce
\* leaves the page running with the sections the import makes of that text,
\* generated ids apart: every missing id generated, every name a string.
C21_LoadCoercesLikeImport ==
    (Started /\ ~InvalidImport(TheSlot) /\ ~MigrateThrows(TheSlot)) =>
        /\ phase = "running"
        /\ SectionsAgree(sections, Migrated(TheSlot, 0))

\* C22: a start with the slot absent, not JSON, or without an array-valued
\* `sections` leaves the page running on the seed Document: the title
\* "Check-It" and one section "General" with one undone item without a due
\* date.
C22_SeedWhenSlotUnusable ==
    (Started /\ (lastOp.imp.file.k \in {"none", "bad"} \/ InvalidImport(TheSlot))) =>
        /\ phase = "running"
        /\ title = "Check-It"
        /\ Len(sections) = 1
        /\ sections[1].name = Str("General")
        /\ Len(sections[1].items) = 1
        /\ sections[1].items[1].done = FALSE
        /\ sections[1].items[1].dueDate = ""

\* the slot held {"title":"T","sections":"x"} and the page shows the seed
C22_Witness ==
    /\ Started
    /\ lastOp.imp.file.k = "doc"
    /\ lastOp.imp.file.secs = Str("x")
    /\ phase = "running"
    /\ sections[1].name = Str("General")

-----------------------------------------------------------------------------
(* C23: the derived values on screen and the date.                         *)

\* the totals, the per-section totals and the projection on screen
CachedTotals == totals(sections, shown.totals)
CachedSectionTotals == sectionTotals(sections, shown.totals)
CachedProjection == filteredSections(sections, search, filter, shown.view)

\* the rows the last render flagged overdue, all rows being displayed
RECURSIVE FlaggedOverdue(_)
FlaggedOverdue(k) ==
    IF k = 0 THEN 0
    ELSE FlaggedOverdue(k - 1) + OverdueCount(sections[k].items, shown.flags)

\* C23: what a render shows agrees with the Document and the date of that
\* render: the totals, the per-section totals and the projection are those
\* of that date, and the overdue count of the totals is the number of rows
\* flagged overdue.
C23_DerivedAgreeWithDate ==
    phase = "running" =>
        /\ CachedTotals = totals(sections, shown.flags)
        /\ CachedSectionTotals = sectionTotals(sections, shown.flags)
        /\ CachedProjection = filteredSections(sections, search, filter, shown.flags)
        /\ (search = "" /\ filter = "all") =>
              CachedTotals.overdue = FlaggedOverdue(Len(sections))

-----------------------------------------------------------------------------
(* C24 .. C29: the Store's operations on items.                            *)

\* C24: a drop that follows a drop, with no drag-start in between, leaves
\* every section's items in their order.
C24_StaleDropHarmless ==
    [][(lastOp.op = "onDropItem" /\ lastOp'.op = "onDropItem") => sections' = sections]_vars

\* the handler that ran was given an id the Document does not hold
AbsentIdStep ==
    /\ lastOp'.op \in {"addItem", "updateItem", "deleteItem", "renameSection"}
    /\ lastOp'.out = "absent"

\* C25: addItem, updateItem, deleteItem and renameSection called with an id
\* no section or item has leave the title, the sections and every item as
\* they were, and the page keeps running.
C25_AbsentIdNoOp ==
    [][AbsentIdStep => (title' = title /\ sections' = sections /\ phase' = "running")]_vars

\* updateItem was called with ids the Document does not pair
C25_Witness ==
    /\ lastOp.op = "updateItem"
    /\ lastOp.out = "absent"
    /\ sections = EditSections

\* the rows whose item a step changed
ChangedItems ==
    {p \in {<<i, j>> : i \in 1..Len(sections), j \in 1..MaxItems + MaxUid} :
        /\ p[2] <= Len(sections[p[1]].items)
        /\ p[2] <= Len(sections'[p[1]].items)
        /\ sections'[p[1]].items[p[2]] # sections[p[1]].items[p[2]]}

\* the fields of a row's item a step changed
ChangedFields(i, j) ==
    {f \in {"id", "text", "done", "dueDate"} :
        \/ f = "id" /\ sections'[i].items[j].id # sections[i].items[j].id
        \/ f = "text" /\ sections'[i].items[j].text # sections[i].items[j].text
        \/ f = "done" /\ sections'[i].items[j].done # sections[i].items[j].done
        \/ f = "dueDate" /\ sections'[i].items[j].dueDate # sections[i].items[j].dueDate}

\* sections and items are the same in number, ids, names and order
SameShape ==
    /\ Len(sections') = Len(sections)
    /\ \A i \in 1..Len(sections) :
          /\ sections'[i].id = sections[i].id
          /\ sections'[i].name = sections[i].name
          /\ Len(sections'[i].items) = Len(sections[i].items)
          /\ \A j \in 1..Len(sections[i].items) :
                sections'[i].items[j].id = sections[i].items[j].id

\* C26: updateItem, called by a row's input with a patch of one field,
\* changes at most one item and of that item only one field other than the
\* id; the title, the sections' ids, names and order and the items' ids and
\* order stay.
C26_UpdateItemFrame ==
    [][lastOp'.op = "updateItem" =>
          /\ title' = title
          /\ SameShape
          /\ Cardinality(ChangedItems) <= 1
          /\ \A p \in ChangedItems : Cardinality(ChangedFields(p[1], p[2])) = 1]_vars

\* a is b with some entries left out, the others in their order
RECURSIVE IsSubsequence(_, _)
IsSubsequence(a, b) ==
    IF a = <<>> THEN TRUE
    ELSE IF b = <<>> THEN FALSE
    ELSE IF Head(a) = Head(b) THEN IsSubsequence(Tail(a), Tail(b))
    ELSE IsSubsequence(a, Tail(b))

\* C27: "Clear done" leaves no done item in any section, keeps every undone
\* item and their order, and keeps the sections' number, ids, names and
\* order; the done count of the totals is 0 afterwards.
C27_ClearDone ==
    [][lastOp'.op = "clearDone" =>
          /\ title' = title
          /\ Len(sections') = Len(sections)
          /\ \A i \in 1..Len(sections) :
                /\ sections'[i].id = sections[i].id
                /\ sections'[i].name = sections[i].name
                /\ \A j \in 1..Len(sections'[i].items) : ~sections'[i].items[j].done
                /\ Len(sections'[i].items)
                      = Len(sections[i].items) - DoneCount(sections[i].items)
                /\ IsSubsequence(sections'[i].items, sections[i].items)
          /\ totals(sections', today).done = 0]_vars

\* "Clear done" has removed the done item of the first section and kept the
\* undone one
C27_Witness ==
    /\ lastOp.op = "clearDone"
    /\ Len(sections) = 2
    /\ Len(sections[1].items) = 1
    /\ sections[1].items[1].id = Str("2")
    /\ Len(sections[2].items) = 1

\* isFiltered
isFiltered == trim(search) # "" \/ filter # "all"

\* a drop that went through right after the drag-start, under a search
\* string or a filter
ShownDragDrop ==
    /\ lastOp.op = "onDragStartItem"
    /\ lastOp'.op = "onDropItem"
    /\ lastOp'.out = "ok"
    /\ isFiltered

\* C28: under a search string or a filter, a drag from a row on screen to
\* another row on screen of the same section puts the item of the first row
\* where the item of the second row was in the section's stored items.
C28_ShownDragMovesShownItem ==
    [][ShownDragDrop =>
          \A i \in 1..Len(sections) :
              sections[i].id = dragRef.sectionId =>
                  LET rows == ShownRows[i].items
                      dragged == rows[dragRef.fromIndex.n + 1]
                      target == rows[lastOp'.to.n + 1]
                  IN \A p \in 1..Len(sections[i].items) :
                         sections[i].items[p].id = target.id =>
                             sections'[i].items[p].id = dragged.id]_vars

\* number of entries of a that equal x
Count(a, x) == Cardinality({j \in 1..Len(a) : a[j] = x})

\* b holds the items of a, each as often as a does
SameItems(a, b) ==
    /\ Len(a) = Len(b)
    /\ \A j \in 1..Len(a) : Count(b, a[j]) = Count(a, a[j])

\* C29: a drop keeps every section's id, name and items, each item with its
\* fields and as often as before, and changes the order in at most one
\* section.
C29_DropKeepsItems ==
    [][lastOp'.op = "onDropItem" =>
          /\ Len(sections') = Len(sections)
          /\ \A i \in 1..Len(sections) :
                /\ sections'[i].id = sections[i].id
                /\ sections'[i].name = sections[i].name
                /\ SameItems(sections[i].items, sections'[i].items)
          /\ Cardinality({i \in 1..Len(sections) : sections'[i] # sections[i]}) <= 1]_vars

-----------------------------------------------------------------------------
(* C30: overlapping imports.                                               *)

\* C30: with imports overlapping, each file read that finishes either
\* replaces title and sections together by what its own file yields, or (the
\* file rejected, the coercion failed) leaves both as they were: the
\* Document is always that of the accepted read that finished last.
C30_LastReadWins ==
    [][lastOp'.op = "importResolved" =>
          IF lastOp'.out = "ok"
          THEN /\ title' = MigratedTitle(safeParse(lastOp'.imp.file))
               /\ sections' = Migrated(safeParse(lastOp'.imp.file), nextId)
          ELSE /\ title' = title
               /\ sections' = sections]_vars

\* the file with the title "T" was read last, and since its import was
\* called another import has finished and generated ids
C30_Witness ==
    /\ lastOp.op = "importResolved"
    /\ lastOp.out = "ok"
    /\ lastOp.imp.file.title = Str("T")
    /\ lastOp.imp.at < nextId
    /\ pending = {}
    /\ title = "T"
    /\ Len(sections) = 1
    /\ sections[1].id = Str("a")

====
